---------------------------- MODULE Spec2Model ----------------------------
(***************************************************************************)
(* A model of c64dither (src/src/main.rs): the colour matcher, the error   *)
(* diffusion dither, the multicolor pixel doubling, the per-tile colour    *)
(* reducer, the pipeline convert_image and the batch driver.               *)
(*                                                                         *)
(* Numbers.  The program computes in f32.  The model computes in fixed     *)
(* point: a Lab coordinate is an integer number of tenths of a Lab unit,   *)
(* an RGB float channel an integer number of thousandths.  The Lab values  *)
(* of the colours the model uses are tabulated (the palette crate's        *)
(* sRGB -> CIE L*a*b* D65 conversion, rounded to a tenth).                 *)
(***************************************************************************)
EXTENDS Integers, Sequences, FiniteSets, TLC

VARIABLES
    width,              \* image.width()
    height,             \* image.height()
    image,              \* the RgbImage buffer: [<<x, y>> -> RGBColor3b]
    input,              \* the buffer as it was handed to the first stage
    pc,                 \* which stage of the program runs
    pos,                \* c64_dither: index of the next pixel of enumerate_pixels_mut
    lum_acc_vec_error,  \* c64_dither: the accumulated error vector
    a1,                 \* rgbv_error_table: the trial point of the last call
    tile,               \* c64_reduce_color_per_block: index of the next tile
    block,              \* fix_pixel_block: the groups (count, colour, points)
    pass,               \* how many times the reducer has been applied
    files,              \* batch: what each listed file holds
    todo,               \* batch: the items no worker has taken yet
    worker,             \* batch: what each worker thread holds
    saved,              \* batch: the items whose output file was written
    reported,           \* batch: the items a failure was printed for
    printed             \* batch: the items a success was printed for

vars == <<width, height, image, input, pc, pos, lum_acc_vec_error, a1, tile,
          block, pass, files, todo, worker, saved, reported, printed>>

imageVars == <<width, height, image, input, pos, lum_acc_vec_error, a1, tile,
               block, pass>>
batchVars == <<files, todo, worker, saved, reported, printed>>

-----------------------------------------------------------------------------
(* The palette                                                             *)

C64_BLACK       == <<0, 0, 0>>
C64_WHITE       == <<255, 255, 255>>
C64_RED         == <<159, 78, 68>>
C64_CYAN        == <<106, 191, 198>>
C64_PURPLE      == <<160, 87, 163>>
C64_GREEN       == <<92, 171, 94>>
C64_BLUE        == <<80, 69, 155>>
C64_YELLOW      == <<201, 212, 135>>
C64_ORANGE      == <<161, 104, 60>>
C64_BROWN       == <<109, 84, 18>>
C64_LIGHT_RED   == <<203, 126, 117>>
C64_DARK_GREY   == <<98, 98, 98>>
C64_GREY        == <<137, 137, 137>>
C64_LIGHT_GREEN == <<154, 210, 132>>
C64_LIGHT_BLUE  == <<136, 126, 203>>
C64_LIGHT_GREY  == <<173, 173, 173>>

C64_PALETTE_ALL_3B ==
    << C64_BLACK, C64_WHITE, C64_RED, C64_CYAN, C64_PURPLE, C64_GREEN,
       C64_BLUE, C64_YELLOW, C64_ORANGE, C64_BROWN, C64_LIGHT_RED,
       C64_DARK_GREY, C64_GREY, C64_LIGHT_GREEN, C64_LIGHT_BLUE,
       C64_LIGHT_GREY >>

PaletteColors == { C64_PALETTE_ALL_3B[i] : i \in DOMAIN C64_PALETTE_ALL_3B }

\* Colours an input file may hold that are no palette colours.
PURE_YELLOW == <<255, 255, 0>>
PURE_RED    == <<255, 0, 0>>
PURE_BLUE   == <<0, 0, 255>>
TAN         == <<200, 100, 50>>

\* rgb as f32 / 255.0, in thousandths.
rgb_to_vec3f(rgb) ==
    << (rgb[1] * 1000) \div 255, (rgb[2] * 1000) \div 255, (rgb[3] * 1000) \div 255 >>

\* Srgb -> Lab of the palette crate, tabulated in tenths; the result is in
\* the order the function returns it: [lab.a, lab.b, lab.l].
LabTable ==
    <<0, 0, 0>>          :> <<0, 0, 0>>         @@  \* C64_BLACK
    <<1000, 1000, 1000>> :> <<0, 0, 1000>>      @@  \* C64_WHITE
    <<623, 305, 266>>    :> <<327, 215, 431>>   @@  \* C64_RED
    <<415, 749, 776>>    :> <<-239, -115, 725>> @@  \* C64_CYAN
    <<627, 341, 639>>    :> <<416, -284, 482>>  @@  \* C64_PURPLE
    <<360, 670, 368>>    :> <<-405, 322, 635>>  @@  \* C64_GREEN
    <<313, 270, 607>>    :> <<279, -457, 347>>  @@  \* C64_BLUE
    <<788, 831, 529>>    :> <<-157, 369, 825>>  @@  \* C64_YELLOW
    <<631, 407, 235>>    :> <<184, 338, 493>>   @@  \* C64_ORANGE
    <<427, 329, 70>>     :> <<35, 396, 372>>    @@  \* C64_BROWN
    <<796, 494, 458>>    :> <<288, 175, 607>>   @@  \* C64_LIGHT_RED
    <<384, 384, 384>>    :> <<0, 0, 416>>       @@  \* C64_DARK_GREY
    <<537, 537, 537>>    :> <<0, 0, 571>>       @@  \* C64_GREY
    <<603, 823, 517>>    :> <<-324, 330, 788>>  @@  \* C64_LIGHT_GREEN
    <<533, 494, 796>>    :> <<215, -386, 566>>  @@  \* C64_LIGHT_BLUE
    <<678, 678, 678>>    :> <<0, 0, 707>>       @@  \* C64_LIGHT_GREY
    <<1000, 1000, 0>>    :> <<-216, 945, 971>>  @@  \* PURE_YELLOW
    <<1000, 0, 0>>       :> <<801, 672, 532>>   @@  \* PURE_RED
    <<0, 0, 1000>>       :> <<792, -1079, 323>> @@  \* PURE_BLUE
    <<784, 392, 196>>    :> <<363, 454, 536>>       \* TAN

rgb_to_lab3f(rgb) == LabTable[rgb]

\* The lazily built table of (float colour, byte colour) pairs.
C64_PALETTE_ALL_3F ==
    [ i \in DOMAIN C64_PALETTE_ALL_3B |->
        << rgb_to_vec3f(C64_PALETTE_ALL_3B[i]), C64_PALETTE_ALL_3B[i] >> ]

-----------------------------------------------------------------------------
(* Vector arithmetic (vecmath), in fixed point                             *)

\* v * num / den, rounded toward zero.
ScaleInt(v, num, den) ==
    IF v >= 0 THEN (v * num) \div den ELSE 0 - (((0 - v) * num) \div den)

vec3_add(a, b) == << a[1] + b[1], a[2] + b[2], a[3] + b[3] >>
vec3_sub(a, b) == << a[1] - b[1], a[2] - b[2], a[3] - b[3] >>
vec3_scale(a, num, den) ==
    << ScaleInt(a[1], num, den), ScaleInt(a[2], num, den), ScaleInt(a[3], num, den) >>

\* The largest r with r * r <= n, built bit by bit from the top.
RECURSIVE ISqrtFrom(_, _, _)
ISqrtFrom(n, bit, r) ==
    IF bit = 0 THEN r
    ELSE IF r + bit <= 46340 /\ (r + bit) * (r + bit) <= n
         THEN ISqrtFrom(n, bit \div 2, r + bit)
         ELSE ISqrtFrom(n, bit \div 2, r)

ISqrt(n) == ISqrtFrom(n, 32768, 0)

\* The Euclidean length of a vector of tenths, in hundredths.
vec3_len(a) == ISqrt(100 * (a[1] * a[1] + a[2] * a[2] + a[3] * a[3]))

clamp(s, min, max) ==
    LET x == IF s < min THEN min ELSE s
    IN  IF x > max THEN max ELSE x

-----------------------------------------------------------------------------
(* rgbv_error_table: the colour matcher                                    *)

\* The trial point: Lab(source) + 0.7 * error, then the three clamps of
\* lines 98-100, applied to the components in the order [a, b, l].
TrialPoint(rgb, error) ==
    LET s == vec3_add(rgb_to_lab3f(rgb), vec3_scale(error, 7, 10))
    IN  << clamp(s[1], 0, 1000), clamp(s[2], -1280, 1270), clamp(s[3], -1280, 1270) >>

\* One entry of the table: ((d * 255).abs() as u32, sub, rgb_3b).
ErrorEntry(rgb, error, i) ==
    LET sub == vec3_sub(TrialPoint(rgb, error), rgb_to_lab3f(C64_PALETTE_ALL_3F[i][1]))
        d   == vec3_len(sub)
    IN  << (d * 255) \div 100, sub, C64_PALETTE_ALL_3F[i][2] >>

\* errors.sort_by(|a, b| a.0.cmp(&b.0)): a stable sort, ascending in the key.
RECURSIVE InsertAscending(_, _)
InsertAscending(e, s) ==
    IF s = <<>> THEN <<e>>
    ELSE IF s[Len(s)][1] <= e[1] THEN Append(s, e)
         ELSE Append(InsertAscending(e, SubSeq(s, 1, Len(s) - 1)), s[Len(s)])

RECURSIVE SortAscending(_)
SortAscending(s) ==
    IF s = <<>> THEN <<>>
    ELSE InsertAscending(s[Len(s)], SortAscending(SubSeq(s, 1, Len(s) - 1)))

rgbv_error_table(rgb, error) ==
    SortAscending([ i \in DOMAIN C64_PALETTE_ALL_3F |-> ErrorEntry(rgb, error, i) ])

-----------------------------------------------------------------------------
(* The images the model is run on                                          *)

MaxWidth   == 18   \* widths MaxWidth - 1 and MaxWidth
MaxHeight  == 9    \* heights MaxHeight - 2 and MaxHeight
MaxColours == 6    \* a patterned input holds up to this many colours

TileSize          == 8
MaxColorsPerTile  == 4

Widths  == { MaxWidth - 1, MaxWidth }
Heights == { MaxHeight - 2, MaxHeight }

\* The colours of the inputs; a pattern of m colours uses the first m.
InputColors ==
    << PURE_YELLOW, C64_WHITE, C64_GREEN, C64_BLACK, PURE_RED, C64_BLUE,
       C64_CYAN, TAN, PURE_BLUE, C64_RED, C64_PURPLE, C64_YELLOW, C64_ORANGE,
       C64_BROWN, C64_LIGHT_RED, C64_DARK_GREY, C64_GREY, C64_LIGHT_GREEN,
       C64_LIGHT_BLUE, C64_LIGHT_GREY >>

\* Coefficients <<a, b, c>> of the patterns ((a*x + b*y + c*x*y) / 2) % m.
Patterns == { <<1, 0, 0>>, <<0, 0, 1>>, <<1, 1, 0>>, <<1, 1, 1>>, <<1, 2, 0>> }

Pixels(w, h) == (0 .. w - 1) \X (0 .. h - 1)

UniformImage(w, h, k) == [ p \in Pixels(w, h) |-> InputColors[k] ]

PatternImage(w, h, q, m) ==
    [ p \in Pixels(w, h) |->
        InputColors[(((q[1] * p[1] + q[2] * p[2] + q[3] * p[1] * p[2]) \div 2) % m) + 1] ]

InputImages(w, h) ==
    { UniformImage(w, h, k) : k \in DOMAIN InputColors }
    \cup { PatternImage(w, h, q, m) : q \in Patterns, m \in 2 .. MaxColours }

ZeroVec == <<0, 0, 0>>

-----------------------------------------------------------------------------
(* c64_dither                                                              *)

\* One call of the closure of enumerate_pixels_mut().for_each, for the
\* pixel at index pos (row-major).
DitherPixel ==
    /\ pc = "dither"
    /\ LET x == pos % width
           y == pos \div width
           next == IF pos + 1 = width * height THEN "fix" ELSE "dither"
       IN  \/ /\ x % 2 # 0                       \* the odd column: return
              /\ pc' = next
              /\ pos' = pos + 1
              /\ UNCHANGED <<image, lum_acc_vec_error, a1>>
           \/ /\ x % 2 = 0
              /\ LET err == IF x = 0 THEN ZeroVec ELSE lum_acc_vec_error
                     src == rgb_to_vec3f(image[<<x, y>>])
                     x1  == rgbv_error_table(src, err)[1]
                 IN  /\ image' = [image EXCEPT ![<<x, y>>] = x1[3]]
                     /\ a1' = TrialPoint(src, err)
                     /\ lum_acc_vec_error' = vec3_scale(vec3_add(err, x1[2]), 1, 2)
              /\ pc' = next
              /\ pos' = pos + 1
    /\ UNCHANGED <<width, height, input, tile, block, pass>>
    /\ UNCHANGED batchVars

-----------------------------------------------------------------------------
(* c64_multicolor_pixel_fix                                                *)

\* A faulty variant: the parity test is missing, so the in-place copy carries column
\* 0 through the whole row.
PixelFixedNoParity(img) == [ p \in DOMAIN img |-> img[<<0, p[2]>>] ]

\* A faulty variant: the copy stops one column early, so the last column is never
\* overwritten.
PixelFixedButLastColumn(img) ==
    [ p \in DOMAIN img |->
        IF p[1] % 2 = 0 \/ \A q \in DOMAIN img : q[1] <= p[1]
        THEN img[p] ELSE img[<<p[1] - 1, p[2]>>] ]

\* Every odd column takes the pixel to its left; rows are independent and
\* an odd column reads only the even column before it.
PixelFixed(img) ==
    [ p \in DOMAIN img |->
        IF p[1] % 2 = 0 THEN img[p] ELSE img[<<p[1] - 1, p[2]>>] ]

c64_multicolor_pixel_fix ==
    /\ pc = "fix"
    /\ image' = PixelFixed(image)
    /\ pc' = "reduce"
    /\ tile' = 0
    /\ UNCHANGED <<width, height, input, pos, lum_acc_vec_error, a1, block, pass>>
    /\ UNCHANGED batchVars

-----------------------------------------------------------------------------
(* c64_reduce_color_per_block and fix_pixel_block                          *)

NumTiles(w, h) == (w \div TileSize) * (h \div TileSize)

\* A faulty variant: the tile starts one column to the right.
TilePointsShifted(t, w) ==
    LET offset_x == (t % (w \div TileSize)) * TileSize + 1
        offset_y == (t \div (w \div TileSize)) * TileSize
    IN  [ k \in 1 .. TileSize * TileSize |->
            << offset_x + ((k - 1) % TileSize), offset_y + ((k - 1) \div TileSize) >> ]

\* The points of tile t in the order the two inner loops push them; the
\* tiles are numbered in the order of the two outer loops.
TilePoints(t, w) ==
    LET offset_x == (t % (w \div TileSize)) * TileSize
        offset_y == (t \div (w \div TileSize)) * TileSize
    IN  [ k \in 1 .. TileSize * TileSize |->
            << offset_x + ((k - 1) % TileSize), offset_y + ((k - 1) \div TileSize) >> ]

SeqRange(s) == { s[i] : i \in DOMAIN s }

\* color_set: the distinct colours of the tile.
ColorSet(img, points) == { img[points[k]] : k \in DOMAIN points }

\* The orders a HashSet of these colours may be iterated in.  A HashSet
\* (RandomState) yields its elements in an order that differs from set to
\* set and from run to run, so every permutation is possible.  The first
\* thing fix_pixel_block does with the block is a stable sort by count, which
\* maps all permutations that agree on the relative order of equal-count
\* colours to one block; of each such class the model keeps the member that
\* is already sorted by count.  cnt[c] is the number of tile pixels of c.
RECURSIVE IterationOrders(_, _)
IterationOrders(S, cnt) ==
    IF S = {} THEN { <<>> }
    ELSE LET top == { c \in S : \A d \in S : cnt[d] <= cnt[c] }
         IN  UNION { { <<c>> \o o : o \in IterationOrders(S \ {c}, cnt) } : c \in top }

\* For each colour of the tile the points that hold it, in the order of
\* `pixel` (the filter of lines 195-198).
Groups(img, points) ==
    [ c \in ColorSet(img, points) |-> SelectSeq(points, LAMBDA p : img[p] = c) ]

PixelCounts(groups) == [ c \in DOMAIN groups |-> Len(groups[c]) ]

\* block: for each colour, in iteration order, (count, colour, points).
BuildBlock(order, groups) ==
    [ i \in DOMAIN order |-> << Len(groups[order[i]]), order[i], groups[order[i]] >> ]

\* A faulty variant: the comparison is not reversed.
SortWithoutReverse(s) == SortAscending(s)

\* block.sort_by(|a, b| a.0.cmp(&b.0).reverse()): stable, descending.
RECURSIVE InsertDescending(_, _)
InsertDescending(e, s) ==
    IF s = <<>> THEN <<e>>
    ELSE IF s[Len(s)][1] >= e[1] THEN Append(s, e)
         ELSE Append(InsertDescending(e, SubSeq(s, 1, Len(s) - 1)), s[Len(s)])

RECURSIVE SortDescending(_)
SortDescending(s) ==
    IF s = <<>> THEN <<>>
    ELSE InsertDescending(s[Len(s)], SortDescending(SubSeq(s, 1, Len(s) - 1)))

\* A faulty variant: only the first point of the removed group is recoloured.
FixIterationFirstPointOnly(b, img) ==
    LET sorted == SortDescending(b)
        last   == sorted[Len(sorted)]
        rest   == SubSeq(sorted, 1, Len(sorted) - 1)
        first  == rest[1]
    IN  << [rest EXCEPT ![1] = << first[1] + last[1], first[2], first[3] >>],
           [ p \in DOMAIN img |-> IF p = last[3][1] THEN first[2] ELSE img[p] ] >>

\* One iteration of the while loop of fix_pixel_block: the block and the
\* image after it.
FixIteration(b, img) ==
    LET sorted == SortDescending(b)
        last   == sorted[Len(sorted)]
        rest   == SubSeq(sorted, 1, Len(sorted) - 1)
        first  == rest[1]
        gone   == SeqRange(last[3])
    IN  << [rest EXCEPT ![1] = << first[1] + last[1], first[2], first[3] >>],
           [ p \in DOMAIN img |-> IF p \in gone THEN first[2] ELSE img[p] ] >>

\* A faulty variant: the budget test is off by one; a tile of five colours is left.
ReduceTileAboveFive ==
    /\ pc = "reduce"
    /\ block = <<>>
    /\ tile < NumTiles(width, height)
    /\ LET points == TilePoints(tile, width)
           color_set == ColorSet(image, points)
           groups == Groups(image, points)
       IN  IF Cardinality(color_set) > MaxColorsPerTile + 1
           THEN /\ \E order \in IterationOrders(color_set, PixelCounts(groups)) :
                       block' = BuildBlock(order, groups)
                /\ tile' = tile
           ELSE /\ block' = <<>>
                /\ tile' = tile + 1
    /\ UNCHANGED <<width, height, image, input, pc, pos, lum_acc_vec_error, a1, pass>>
    /\ UNCHANGED batchVars

\* The body of the two tile loops for the next tile: collect the colours
\* and, with more than four, build the block and enter fix_pixel_block.
ReduceTile ==
    /\ pc = "reduce"
    /\ block = <<>>
    /\ tile < NumTiles(width, height)
    /\ LET points == TilePoints(tile, width)
           color_set == ColorSet(image, points)
           groups == Groups(image, points)
       IN  IF Cardinality(color_set) > MaxColorsPerTile
           THEN /\ \E order \in IterationOrders(color_set, PixelCounts(groups)) :
                       block' = BuildBlock(order, groups)
                /\ tile' = tile
           ELSE /\ block' = <<>>
                /\ tile' = tile + 1
    /\ UNCHANGED <<width, height, image, input, pc, pos, lum_acc_vec_error, a1, pass>>
    /\ UNCHANGED batchVars

FixStep ==
    /\ pc = "reduce"
    /\ Len(block) > MaxColorsPerTile
    /\ LET r == FixIteration(block, image)
       IN  /\ block' = r[1]
           /\ image' = r[2]
    /\ UNCHANGED <<width, height, input, pc, pos, lum_acc_vec_error, a1, tile, pass>>
    /\ UNCHANGED batchVars

\* The loop condition fails: fix_pixel_block returns, the block is dropped.
FixReturn ==
    /\ pc = "reduce"
    /\ block # <<>>
    /\ Len(block) <= MaxColorsPerTile
    /\ block' = <<>>
    /\ tile' = tile + 1
    /\ UNCHANGED <<width, height, image, input, pc, pos, lum_acc_vec_error, a1, pass>>
    /\ UNCHANGED batchVars

\* Both tile loops are over: the reducer returns (and convert_image saves).
ReduceReturn ==
    /\ pc = "reduce"
    /\ block = <<>>
    /\ tile = NumTiles(width, height)
    /\ pc' = "done"
    /\ UNCHANGED <<width, height, image, input, pos, lum_acc_vec_error, a1, tile, block, pass>>
    /\ UNCHANGED batchVars

-----------------------------------------------------------------------------
(* convert_image on one decoded RGB8 image                                 *)

Init ==
    /\ width \in Widths
    /\ height \in Heights
    /\ image \in InputImages(width, height)
    /\ input = image
    /\ pc = "dither"
    /\ pos = 0
    /\ lum_acc_vec_error = ZeroVec
    /\ a1 = ZeroVec
    /\ tile = 0
    /\ block = <<>>
    /\ pass = 1
    /\ files = <<>>
    /\ todo = {}
    /\ worker = <<>>
    /\ saved = {}
    /\ reported = {}
    /\ printed = {}

Next ==
    \/ DitherPixel
    \/ c64_multicolor_pixel_fix
    \/ ReduceTile
    \/ FixStep
    \/ FixReturn
    \/ ReduceReturn

Spec == Init /\ [][Next]_vars

-----------------------------------------------------------------------------
(* The reducer on its own: c64_reduce_color_per_block called on an         *)
(* arbitrary image, and called a second time on its own output             *)

InitReduce ==
    /\ width \in Widths
    /\ height \in Heights
    /\ image \in InputImages(width, height)
    /\ input = image
    /\ pc = "reduce"
    /\ pos = 0
    /\ lum_acc_vec_error = ZeroVec
    /\ a1 = ZeroVec
    /\ tile = 0
    /\ block = <<>>
    /\ pass = 1
    /\ files = <<>>
    /\ todo = {}
    /\ worker = <<>>
    /\ saved = {}
    /\ reported = {}
    /\ printed = {}

\* The second call, on the image the first call left.
ReduceAgain ==
    /\ pc = "done"
    /\ pass = 1
    /\ pass' = 2
    /\ pc' = "reduce"
    /\ tile' = 0
    /\ UNCHANGED <<width, height, image, input, pos, lum_acc_vec_error, a1, block>>
    /\ UNCHANGED batchVars

NextReduce ==
    \/ ReduceTile
    \/ FixStep
    \/ FixReturn
    \/ ReduceReturn
    \/ ReduceAgain

SpecReduce == InitReduce /\ [][NextReduce]_vars

\* The whole loop of fix_pixel_block, and the whole reducer, as functions
\* of the image, for the run in which every colour set is iterated in the
\* order its colours first occur in the tile.
RECURSIVE FirstSeen(_, _, _, _)
FirstSeen(img, points, k, acc) ==
    IF k > Len(points) THEN acc
    ELSE IF img[points[k]] \in SeqRange(acc)
         THEN FirstSeen(img, points, k + 1, acc)
         ELSE FirstSeen(img, points, k + 1, Append(acc, img[points[k]]))

RECURSIVE fix_pixel_block(_, _)
fix_pixel_block(b, img) ==
    IF Len(b) > MaxColorsPerTile
    THEN LET r == FixIteration(b, img) IN fix_pixel_block(r[1], r[2])
    ELSE img

RECURSIVE ReduceFrom(_, _, _, _)
ReduceFrom(img, t, w, h) ==
    IF t >= NumTiles(w, h) THEN img
    ELSE LET points == TilePoints(t, w)
         IN  IF Cardinality(ColorSet(img, points)) > MaxColorsPerTile
             THEN ReduceFrom(
                      fix_pixel_block(
                          BuildBlock(FirstSeen(img, points, 1, <<>>), Groups(img, points)), img),
                      t + 1, w, h)
             ELSE ReduceFrom(img, t + 1, w, h)

c64_reduce_color_per_block(img, w, h) == ReduceFrom(img, 0, w, h)

-----------------------------------------------------------------------------
(* dither_folder_recursive: the listed files are handed to the threads of  *)
(* the rayon pool, each of which runs the closure on one file at a time    *)

MaxItems   == 3   \* files list_files returns
MaxWorkers == 2   \* threads of the pool

Workers == 1 .. MaxWorkers

\* What a file is: a readable RGB8 image, a file open or decode fails on, an
\* image that is not RGB8, or an image whose output cannot be written.
FileKinds == { "rgb8", "corrupt", "not_rgb8", "unwritable" }

Idle == << 0, "idle" >>

InitBatch ==
    /\ \E n \in 1 .. MaxItems : files \in [ 1 .. n -> FileKinds ]
    /\ todo = DOMAIN files
    /\ worker = [ t \in Workers |-> Idle ]
    /\ saved = {}
    /\ reported = {}
    /\ printed = {}
    /\ pc = "batch"
    /\ width = 0
    /\ height = 0
    /\ image = <<>>
    /\ input = <<>>
    /\ pos = 0
    /\ lum_acc_vec_error = ZeroVec
    /\ a1 = ZeroVec
    /\ tile = 0
    /\ block = <<>>
    /\ pass = 1

\* A faulty variant: the error leaves the closure too and ends the whole for_each:
\* the files nobody has taken are dropped.
ReturnErrEndsBatch(t, i) ==
    /\ worker' = [worker EXCEPT ![t] = << i, "err" >>]
    /\ todo' = {}
    /\ UNCHANGED <<files, saved, reported, printed>>

\* convert_image leaves through a `?`: it returns Err to the closure.
ReturnErr(t, i) ==
    /\ worker' = [worker EXCEPT ![t] = << i, "err" >>]
    /\ UNCHANGED <<files, todo, saved, reported, printed>>

\* A thread takes a file nobody has taken and calls convert_image on it.
TakeItem(t) ==
    /\ pc = "batch"
    /\ worker[t] = Idle
    /\ \E i \in todo :
           /\ todo' = todo \ {i}
           /\ worker' = [worker EXCEPT ![t] = << i, "open" >>]
    /\ UNCHANGED <<files, saved, reported, printed>>
    /\ UNCHANGED <<pc, imageVars>>

\* ImageReader::open(in_name)?.decode()?
OpenAndDecode(t) ==
    /\ pc = "batch"
    /\ worker[t][2] = "open"
    /\ LET i == worker[t][1]
       IN  IF files[i] = "corrupt"
           THEN ReturnErr(t, i)
           ELSE /\ worker' = [worker EXCEPT ![t] = << i, "decoded" >>]
                /\ UNCHANGED <<files, todo, saved, reported, printed>>
    /\ UNCHANGED <<pc, imageVars>>

\* dynamic_image.as_mut_rgb8().ok_or(...)?
AsMutRgb8(t) ==
    /\ pc = "batch"
    /\ worker[t][2] = "decoded"
    /\ LET i == worker[t][1]
       IN  IF files[i] = "not_rgb8"
           THEN ReturnErr(t, i)
           ELSE /\ worker' = [worker EXCEPT ![t] = << i, "rgb8" >>]
                /\ UNCHANGED <<files, todo, saved, reported, printed>>
    /\ UNCHANGED <<pc, imageVars>>

\* The three stages, which cannot fail, and rgb_image.save(out_name)?
StagesAndSave(t) ==
    /\ pc = "batch"
    /\ worker[t][2] = "rgb8"
    /\ LET i == worker[t][1]
       IN  IF files[i] = "unwritable"
           THEN ReturnErr(t, i)
           ELSE /\ worker' = [worker EXCEPT ![t] = << i, "ok" >>]
                /\ saved' = saved \cup {i}
                /\ UNCHANGED <<files, todo, reported, printed>>
    /\ UNCHANGED <<pc, imageVars>>

\* The match on the result: println! for Ok, eprintln! for Err; the
\* closure returns and the thread is free again.
PrintResult(t) ==
    /\ pc = "batch"
    /\ worker[t][2] \in {"ok", "err"}
    /\ LET i == worker[t][1]
       IN  IF worker[t][2] = "ok"
           THEN printed' = printed \cup {i} /\ UNCHANGED reported
           ELSE reported' = reported \cup {i} /\ UNCHANGED printed
    /\ worker' = [worker EXCEPT ![t] = Idle]
    /\ UNCHANGED <<files, todo, saved>>
    /\ UNCHANGED <<pc, imageVars>>

NextBatch ==
    \E t \in Workers :
        \/ TakeItem(t)
        \/ OpenAndDecode(t)
        \/ AsMutRgb8(t)
        \/ StagesAndSave(t)
        \/ PrintResult(t)

SpecBatch == InitBatch /\ [][NextBatch]_vars

BatchDone == todo = {} /\ \A t \in Workers : worker[t] = Idle

Fails(i) == files[i] # "rgb8"

\* C6: a failure is printed only for a file convert_image fails on and no
\* output is saved for such a file; whatever the interleaving, the batch
\* goes on until every file has been handled, and then every failing file
\* has its failure printed and every other file is saved and printed.
C6_FailureIsPerItem ==
    /\ \A i \in DOMAIN files :
           /\ i \in reported => Fails(i)
           /\ i \in saved => ~Fails(i)
    /\ ~BatchDone => ENABLED NextBatch
    /\ BatchDone =>
           \A i \in DOMAIN files :
               IF Fails(i)
               THEN i \in reported /\ i \notin saved /\ i \notin printed
               ELSE i \in saved /\ i \in printed /\ i \notin reported

\* A batch of three files whose second is corrupt has ended.
C6_Witness ==
    /\ BatchDone
    /\ files = << "rgb8", "corrupt", "rgb8" >>
    /\ saved = {1, 3}
    /\ reported = {2}

-----------------------------------------------------------------------------
(* Properties of the reducer                                               *)

TileColors(img, t, w) == ColorSet(img, TilePoints(t, w))

Tiles == 0 .. NumTiles(width, height) - 1

\* The points of the tile fix_pixel_block is working on.
CurrentPoints == TilePoints(tile, width)

PixelsOf(img, points, c) == { k \in DOMAIN points : img[points[k]] = c }

RECURSIVE SumCounts(_)
SumCounts(b) == IF b = <<>> THEN 0 ELSE b[1][1] + SumCounts(Tail(b))

\* C1: after c64_reduce_color_per_block has returned, every 8x8 tile with
\* its top-left corner at (8i, 8j) that lies inside the image holds at most
\* 4 distinct colours.
C1_TilesWithinBudget ==
    pc = "done" =>
        \A t \in Tiles : Cardinality(TileColors(image, t, width)) <= MaxColorsPerTile

\* A reduced image one of whose tiles held more than 4 colours on input.
C1_Witness ==
    /\ pc = "done"
    /\ pass = 1
    /\ \E t \in Tiles : Cardinality(TileColors(input, t, width)) > MaxColorsPerTile

\* C5: the second application of the reducer changes no pixel.
C5_Idempotent == [][pass = 2 => image' = image]_vars

\* The second application has returned, on an image the first one changed.
C5_Witness ==
    /\ pc = "done"
    /\ pass = 2
    /\ image # input

\* C7: the output of the reducer is a function of its input: every run
\* ends with the image of the run that takes the colours of each tile in
\* the order they first occur, which is one of the runs the program makes.
C7_Deterministic ==
    (pc = "done" /\ pass = 1) => image = c64_reduce_color_per_block(input, width, height)

\* C9, the states of the loop: the recorded counts sum to 64, each is the
\* number of tile pixels of its colour, and never fewer than 4 groups are
\* left, so that the loop ends with exactly 4.
C9_BlockInvariant ==
    (pc = "reduce" /\ block # <<>>) =>
        /\ SumCounts(block) = TileSize * TileSize
        /\ \A i \in DOMAIN block :
               block[i][1] = Cardinality(PixelsOf(image, CurrentPoints, block[i][2]))
        /\ Len(block) >= MaxColorsPerTile

\* C9, one iteration: a group g of minimal count is removed, all its
\* pixels take the colour of a group f of maximal count, whose count grows
\* by the count of g; nothing else changes.
C9_Iteration ==
    (pc = "reduce" /\ Len(block) > MaxColorsPerTile /\ block' # block) =>
        \E g \in DOMAIN block : \E f \in DOMAIN block :
            /\ f # g
            /\ \A i \in DOMAIN block : block[g][1] <= block[i][1] /\ block[i][1] <= block[f][1]
            /\ \A p \in DOMAIN image :
                   image'[p] = IF image[p] = block[g][2] /\ p \in SeqRange(CurrentPoints)
                               THEN block[f][2] ELSE image[p]
            /\ Len(block') = Len(block) - 1
            /\ { <<block'[i][1], block'[i][2]>> : i \in DOMAIN block' } =
                   { << IF i = f THEN block[f][1] + block[g][1] ELSE block[i][1], block[i][2] >> :
                        i \in DOMAIN block \ {g} }

\* C9: every iteration of fix_pixel_block merges a smallest group into a
\* largest one, the counts stay those of the tile and sum to 64, and the
\* loop stops with exactly 4 groups.
C9_MajorityAbsorption == [][C9_Iteration]_vars /\ []C9_BlockInvariant

\* fix_pixel_block is about to return after two iterations on one tile.
C9_Witness ==
    /\ pc = "reduce"
    /\ Len(block) = MaxColorsPerTile
    /\ Cardinality(TileColors(input, tile, width)) >= MaxColorsPerTile + 2
    /\ SumCounts(block) = TileSize * TileSize

-----------------------------------------------------------------------------
(* Properties of the pipeline                                              *)

EvenColumn(p) == p[1] % 2 = 0

\* The pixels the dither closure has been called for.
Visited(p) == p[2] * width + p[1] < pos

Paired(img) ==
    \A p \in DOMAIN img :
        (EvenColumn(p) /\ p[1] + 1 < width) => img[<<p[1] + 1, p[2]>>] = img[p]

InFullTile(p) ==
    /\ p[1] < (width \div TileSize) * TileSize
    /\ p[2] < (height \div TileSize) * TileSize

\* C2: every pixel the dither has written is a palette colour, and from
\* the end of c64_multicolor_pixel_fix on every pixel of the image is.
C2_OnlyPaletteColors ==
    /\ pc \in {"dither", "fix"} =>
           \A p \in DOMAIN image :
               (EvenColumn(p) /\ Visited(p)) => image[p] \in PaletteColors
    /\ pc \in {"reduce", "done"} =>
           \A p \in DOMAIN image : image[p] \in PaletteColors

\* The pipeline has ended on an image of odd width none of whose pixels
\* was a palette colour.
C2_Witness ==
    /\ pc = "done"
    /\ width % 2 = 1
    /\ \A p \in DOMAIN input : input[p] \notin PaletteColors

\* C3: the step c64_multicolor_pixel_fix leaves every even column as it was
\* and makes every odd column equal to the even column on its left.
C3_PixelPairs ==
    [][ pc = "fix" =>
          \A p \in DOMAIN image :
              EvenColumn(p) =>
                  /\ image'[p] = image[p]
                  /\ p[1] + 1 < width => image'[<<p[1] + 1, p[2]>>] = image'[p] ]_vars

\* The stage has run on an image of odd width and has overwritten a pixel.
C3_Witness ==
    /\ pc = "reduce"
    /\ tile = 0
    /\ block = <<>>
    /\ width % 2 = 1
    /\ \E p \in DOMAIN image : ~EvenColumn(p) /\ image[p] # input[p]

UniformPaletteInput ==
    /\ input[<<0, 0>>] \in PaletteColors
    /\ \A p \in DOMAIN input : input[p] = input[<<0, 0>>]

\* C4: on a uniform image of a palette colour c the dither writes c to
\* every pixel it processes and keeps the error vector zero, and the
\* pipeline ends with the image it started with, one colour per tile.
C4_UniformPaletteImage ==
    UniformPaletteInput =>
        /\ pc \in {"dither", "fix"} =>
               /\ lum_acc_vec_error = ZeroVec
               /\ \A p \in DOMAIN image : image[p] = input[p]
        /\ pc = "done" =>
               /\ image = input
               /\ \A t \in Tiles : Cardinality(TileColors(image, t, width)) = 1

\* The clamp the specification describes: a and b to [-128, 127], L to
\* [0, 100]; s is in the order [a, b, l].
ClampToLabRange(s) ==
    << clamp(s[1], -1280, 1270), clamp(s[2], -1280, 1270), clamp(s[3], 0, 1000) >>

\* C8: the trial point of every call of the matcher is Lab(source) + 0.7 x
\* error with L clamped to [0, 100] and a and b clamped to [-128, 127].
C8_TrialPointClamped ==
    [][ (pc = "dither" /\ EvenColumn(<<pos % width, pos \div width>>)) =>
          LET x   == pos % width
              y   == pos \div width
              err == IF x = 0 THEN ZeroVec ELSE lum_acc_vec_error
              src == rgb_to_vec3f(image[<<x, y>>])
          IN  a1' = ClampToLabRange(vec3_add(rgb_to_lab3f(src), vec3_scale(err, 7, 10))) ]_vars

\* C10: from the end of c64_multicolor_pixel_fix on, every even column
\* equals the odd column on its right, and the reducer changes no pixel
\* outside the full tiles.
C10_PairingSurvives ==
    /\ [](pc \in {"reduce", "done"} => Paired(image))
    /\ [][ pc = "reduce" =>
              \A p \in DOMAIN image : ~InFullTile(p) => image'[p] = image[p] ]_vars

\* fix_pixel_block has reduced the last tile of an image of even width
\* that has columns and rows outside the full tiles.
C10_Witness ==
    /\ pc = "reduce"
    /\ Len(block) = MaxColorsPerTile
    /\ tile = NumTiles(width, height) - 1
    /\ width % 2 = 0
    /\ width % TileSize # 0
    /\ height % TileSize # 0

=============================================================================
